---- MODULE Spec2Model ----
(***************************************************************************)
(* PartyFlow: the ticket issuance and inventory flow.                      *)
(*                                                                         *)
(* The web backend (src/main.py) serves create_checkout_session and        *)
(* payment_success from a thread pool, so several requests run at once and *)
(* interleave at every database call (each db_manager function opens its   *)
(* own connection and runs one statement).  The store (src/core/           *)
(* db_manager.py) is the events and tickets tables.  The payment provider  *)
(* keeps the checkout sessions and their metadata.  The Telegram bot       *)
(* (src/bot.py) keeps the purchase dialogue per chat in user_data.         *)
(***************************************************************************)
EXTENDS Integers, Sequences, FiniteSets, TLC

\* ------------------------------------------------------------------ bounds
\* The larger bounds, under which the flow is explored for violations.
MaxEvents == 2      \* events the admin creates
MaxRequests == 2    \* create_checkout_session requests received
MaxCalls == 2       \* payment_success requests received
MaxHandlers == 2    \* next-step handlers registered for one chat
\* The smaller bounds, under which the properties that hold are established.
FewEvents == 1
FewRequests == 1
FewCalls == 1

Capacities == {1, 2}      \* total_tickets values the admin enters
ApiQuantities == {1, 2}   \* quantities a direct API request carries
Chats == {7}              \* purchasers (Telegram chat ids)
ApiUsers == {3}           \* user_id values a direct API request carries
Texts == {"Dana", "12", "0501234567"}   \* text messages a purchaser sends
NoName == ""

VARIABLES
    events,     \* table events: row id -> [total_tickets, is_active]
    tickets,    \* table tickets: row id -> [event_id, user_id, user_name, phone_number]
    issuedBy,   \* history: ticket id -> the payment_success call that inserted it
    stripe,     \* payment provider: session id -> [metadata, payment_status]
    co,         \* create_checkout_session requests, in arrival order
    ps,         \* payment_success requests, in arrival order
    chat,       \* the bot, per chat id: user_data, next-step handlers, progress
    cookies,    \* the session_user cookie values the login route has set
    dash        \* the admin dashboard request being served, or the last one served

vars == <<events, tickets, issuedBy, stripe, co, ps, chat, cookies, dash>>

\* ------------------------------------------------------------- db_manager
\* A value of the metadata as the payment provider returns it: a string.
str(n) == [s |-> n]
\* int(s) of such a string.
int(v) == v.s

NoEvent == [id |-> 0, total_tickets |-> 0, is_active |-> 0]

\* SELECT * FROM events WHERE id = ?  (no filter on is_active)
get_event_by_id(event_id) ==
    IF event_id \in 1..Len(events)
    THEN [id |-> event_id,
          total_tickets |-> events[event_id].total_tickets,
          is_active |-> events[event_id].is_active]
    ELSE NoEvent

\* SELECT COUNT(*) FROM tickets WHERE event_id = ?
get_tickets_sold(event_id) ==
    Cardinality({t \in 1..Len(tickets) : tickets[t].event_id = event_id})

\* The insert with the first two values in each other's column.
add_ticket_swapped(event_id, user_id, user_name, phone_number) ==
    Append(tickets, [event_id |-> user_id, user_id |-> event_id,
                     user_name |-> user_name, phone_number |-> phone_number])

\* INSERT INTO tickets (event_id, user_id, user_name, phone_number): the table
\* after the insert; the new row's id is its length (AUTOINCREMENT, no row is
\* ever deleted)
add_ticket(event_id, user_id, user_name, phone_number) ==
    Append(tickets, [event_id |-> event_id, user_id |-> user_id,
                     user_name |-> user_name, phone_number |-> phone_number])

\* INSERT INTO events (..., total_tickets, is_active) VALUES (..., ?, 1)
add_event(total_tickets) ==
    /\ events' = Append(events, [total_tickets |-> total_tickets, is_active |-> 1])
    /\ UNCHANGED <<tickets, issuedBy, stripe, co, ps, chat>>

\* UPDATE events SET is_active = ? WHERE id = ?
set_active(event_id, flag) ==
    [e \in 1..Len(events) |->
        IF e = event_id THEN [events[e] EXCEPT !.is_active = flag] ELSE events[e]]

archive_event(event_id) ==
    /\ event_id \in 1..Len(events)
    /\ events[event_id].is_active = 1
    /\ events' = set_active(event_id, 0)
    /\ UNCHANGED <<tickets, issuedBy, stripe, co, ps, chat>>

restore_event(event_id) ==
    /\ event_id \in 1..Len(events)
    /\ events[event_id].is_active = 0
    /\ events' = set_active(event_id, 1)
    /\ UNCHANGED <<tickets, issuedBy, stripe, co, ps, chat>>

\* ------------------------------------------------ create_checkout_session
TicketRequest(event_id, user_name, user_id, phone_number, quantity) ==
    [event_id |-> event_id, user_name |-> user_name, user_id |-> user_id,
     phone_number |-> phone_number, quantity |-> quantity]

NoTicket == TicketRequest(0, NoName, 0, NoName, 0)

\* A request arrives; origin is the chat whose bot handler sent it, 0 for a
\* direct API client.
NewCheckout(origin, ticket) ==
    [origin |-> origin, ticket |-> ticket, pc |-> "check", event |-> NoEvent,
     sold_count |-> 0, status_code |-> 0, session_id |-> 0]

\* if not event
EventMissing(event) == event = NoEvent

\* The comparison with >= for >.
NotEnoughLeft_ge(sold_count, quantity, event) ==
    sold_count + quantity >= event.total_tickets

\* if sold_count + ticket.quantity > event['total_tickets']
NotEnoughLeft(sold_count, quantity, event) ==
    sold_count + quantity > event.total_tickets

\* The HTTP status the two checks of create_checkout_session raise, 0 for none.
CheckoutChecks(event, sold_count, quantity) ==
    IF EventMissing(event) THEN 404
    ELSE IF NotEnoughLeft(sold_count, quantity, event) THEN 400
    ELSE 0

\* The response is sent and the locals of the handler are gone.
Returned(req, status_code, session_id) ==
    [req EXCEPT !.ticket = NoTicket, !.event = NoEvent, !.sold_count = 0,
                !.pc = "done", !.status_code = status_code,
                !.session_id = session_id]

\* POST /create_checkout_session by a client other than the bot.
ApiCheckout(event_id, user_id, quantity) ==
    /\ co' = Append(co, NewCheckout(0,
                TicketRequest(event_id, "Dana", user_id, "+972501234567", quantity)))
    /\ UNCHANGED <<events, tickets, issuedBy, stripe, ps, chat, cookies, dash>>

\* event = get_event_by_id(...); sold_count = get_tickets_sold(...); the checks.
\* The two reads are one step: the row of an event is never deleted and its
\* total_tickets never changes, so the pair reads what it would read with the
\* first read delayed to the second.
CheckoutCheck(r) ==
    /\ co[r].pc = "check"
    /\ LET event == get_event_by_id(co[r].ticket.event_id)
           sold_count == get_tickets_sold(co[r].ticket.event_id)
           code == CheckoutChecks(event, sold_count, co[r].ticket.quantity)
       IN co' = [co EXCEPT ![r] =
                    IF code = 0
                    THEN [co[r] EXCEPT !.event = event, !.sold_count = sold_count,
                                       !.pc = "stripe"]
                    ELSE Returned(co[r], code, 0)]
    /\ UNCHANGED <<events, tickets, issuedBy, stripe, ps, chat, cookies, dash>>

\* metadata={...} of stripe.checkout.Session.create
Metadata(ticket) ==
    [event_id |-> str(ticket.event_id), user_id |-> str(ticket.user_id),
     user_name |-> ticket.user_name, phone_number |-> ticket.phone_number,
     quantity |-> str(ticket.quantity)]

\* A checkout that books the units when the payment intent is created.
CheckoutStripeCreate_booking(r) ==
    /\ co[r].pc = "stripe"
    /\ stripe' = Append(stripe, [metadata |-> Metadata(co[r].ticket),
                                 payment_status |-> "unpaid"])
    /\ tickets' = add_ticket(co[r].ticket.event_id, co[r].ticket.user_id,
                             co[r].ticket.user_name, co[r].ticket.phone_number)
    /\ issuedBy' = Append(issuedBy, 0)
    /\ co' = [co EXCEPT ![r] = Returned(co[r], 200, Len(stripe) + 1)]
    /\ UNCHANGED <<events, ps, chat, cookies, dash>>

\* stripe.checkout.Session.create(...) returns the session: HTTP 200
CheckoutStripeCreate(r) ==
    /\ co[r].pc = "stripe"
    /\ stripe' = Append(stripe, [metadata |-> Metadata(co[r].ticket),
                                 payment_status |-> "unpaid"])
    /\ co' = [co EXCEPT ![r] = Returned(co[r], 200, Len(stripe) + 1)]
    /\ UNCHANGED <<events, tickets, issuedBy, ps, chat, cookies, dash>>

\* stripe.checkout.Session.create raises: except Exception -> HTTP 500
CheckoutStripeError(r) ==
    /\ co[r].pc = "stripe"
    /\ co' = [co EXCEPT ![r] = Returned(co[r], 500, 0)]
    /\ UNCHANGED <<events, tickets, issuedBy, stripe, ps, chat, cookies, dash>>

\* The purchaser completes the payment on the provider's hosted page.
Pay(s) ==
    /\ s \in 1..Len(stripe)
    /\ stripe[s].payment_status = "unpaid"
    /\ stripe' = [stripe EXCEPT ![s].payment_status = "paid"]
    /\ UNCHANGED <<events, tickets, issuedBy, co, ps, chat, cookies, dash>>

\* --------------------------------------------------------- payment_success
NoData == [event_id |-> str(0), user_id |-> str(0), user_name |-> NoName,
           phone_number |-> NoName, quantity |-> str(0)]

\* The test of the payment status left out, or turned into != 'unpaid'.
IsPaid_any(payment_status) == payment_status # "unknown"

\* session.payment_status == 'paid'
IsPaid(payment_status) == payment_status = "paid"

\* The tickets a payment_success call has inserted, and those of all the calls
\* for one payment session.
Issued(k) == {t \in 1..Len(tickets) : issuedBy[t] = k}
IssuedFor(s) ==
    {t \in 1..Len(tickets) : issuedBy[t] # 0 /\ ps[issuedBy[t]].session_id = s}

\* GET /payment_success?session_id=s: stripe.checkout.Session.retrieve(s), which
\* raises for an unknown id; the test of the payment status; and, for a paid
\* session, event = get_event_by_id(int(data['event_id'])).  range(quantity) is
\* empty for a quantity below 1.  i counts the tickets delivered; db_error
\* says that add_ticket has returned False; exceeded (history) says that the
\* quantity was more than the event had left when the request arrived.
PaymentSuccess(s) ==
    /\ s \in 1..(Len(stripe) + 1)
    /\ LET known == s \in 1..Len(stripe)
           status == IF known THEN stripe[s].payment_status ELSE "unknown"
           go == known /\ IsPaid(status)
           data == IF go THEN stripe[s].metadata ELSE NoData
           quantity == int(data.quantity)
       IN ps' = Append(ps,
            [session_id |-> s,
             payment_status |-> status,
             data |-> data,
             quantity |-> quantity,
             event |-> IF go /\ quantity > 0
                       THEN get_event_by_id(int(data.event_id)) ELSE NoEvent,
             i |-> 0,
             db_error |-> FALSE,
             exceeded |-> go /\ NotEnoughLeft(get_tickets_sold(int(data.event_id)),
                                    quantity, get_event_by_id(int(data.event_id))),
             pc |-> IF go /\ quantity > 0 THEN "loop" ELSE "done",
             result |-> IF ~known THEN "error"
                        ELSE IF ~go THEN "not_paid"
                        ELSE IF quantity > 0 THEN "" ELSE "success"])
    /\ UNCHANGED <<events, tickets, issuedBy, stripe, co, chat, cookies, dash>>

\* The call's record after iteration i of the loop: delivered says whether
\* generate_qr_code and send_ticket_to_telegram returned.
AfterIteration(call, delivered, db_error) ==
    LET last == call.i + 1 = call.quantity
    IN [call EXCEPT
          !.i = IF delivered THEN call.i + 1 ELSE call.i,
          !.db_error = call.db_error \/ db_error,
          !.event = IF delivered /\ ~last THEN call.event ELSE NoEvent,
          !.pc = IF delivered /\ ~last THEN "loop" ELSE "done",
          !.result = IF ~delivered THEN "error"
                     ELSE IF last THEN "success" ELSE ""]

\* An iteration that takes back the rows of the call when a delivery fails.
FulfilIssue_rollback(k, delivered) ==
    /\ ps[k].pc = "loop"
    /\ delivered => ~EventMissing(ps[k].event)
    /\ tickets' = IF delivered
                  THEN add_ticket(int(ps[k].data.event_id), int(ps[k].data.user_id),
                                  ps[k].data.user_name, ps[k].data.phone_number)
                  ELSE SubSeq(tickets, 1, Len(tickets) - ps[k].i)
    /\ issuedBy' = IF delivered THEN Append(issuedBy, k)
                   ELSE SubSeq(issuedBy, 1, Len(issuedBy) - ps[k].i)
    /\ ps' = [ps EXCEPT ![k] = AfterIteration(ps[k], delivered, FALSE)]
    /\ UNCHANGED <<events, stripe, co, chat, cookies, dash>>

\* One iteration: db_manager.add_ticket inserts and commits the row, then the
\* QR code is written and sent (delivered), or one of the two raises.
FulfilIssue(k, delivered) ==
    /\ ps[k].pc = "loop"
    /\ delivered => ~EventMissing(ps[k].event)
    /\ tickets' = add_ticket(int(ps[k].data.event_id), int(ps[k].data.user_id),
                             ps[k].data.user_name, ps[k].data.phone_number)
    /\ issuedBy' = Append(issuedBy, k)
    /\ ps' = [ps EXCEPT ![k] = AfterIteration(ps[k], delivered, FALSE)]
    /\ UNCHANGED <<events, stripe, co, chat, cookies, dash>>

\* One iteration in which db_manager.add_ticket catches a database error and
\* returns False: no row, and the loop goes on with ticket_id = False.
FulfilIssueDbError(k, delivered) ==
    /\ ps[k].pc = "loop"
    /\ delivered => ~EventMissing(ps[k].event)
    /\ ps' = [ps EXCEPT ![k] = AfterIteration(ps[k], delivered, TRUE)]
    /\ UNCHANGED <<events, tickets, issuedBy, stripe, co, chat, cookies, dash>>

\* ------------------------------------------------------------------- bot
\* user_data has no entry for the chat; in an entry, quantity 0 and name
\* NoName stand for a key that is not (yet) in the dict.
NoSession == [has |-> FALSE, event_id |-> 0, quantity |-> 0, name |-> NoName]

\* user_data[chat_id] = {'event_id': event_id}
NewSession(event_id) ==
    [has |-> TRUE, event_id |-> event_id, quantity |-> 0, name |-> NoName]

\* A chat after the bot has started: no session, no next-step handler.
\* handlers: callbacks registered by bot.register_next_step_handler, in order;
\* pending: the handlers taken for the message being processed; text: that
\* message; request: the create_checkout_session request finalize_order waits
\* for (0: none); shown: the last message the bot sent; keyboard: the quantity
\* buttons have been shown; stage: how far the current session has come along
\* event choice, quantity, name, phone (history).
NewChat ==
    [user_data |-> NoSession, handlers |-> <<>>, pending |-> <<>>, text |-> NoName,
     request |-> 0, shown |-> "", keyboard |-> FALSE, stage |-> "none"]

\* No handler of the chat is running.
Idle(c) == chat[c].pending = <<>> /\ chat[c].request = 0

\* range(1, 6)
QtyFirst == 1
QtyLast == 5
\* A keyboard with one button more.
QtyButtons_more == QtyFirst..(QtyLast + 1)

QtyButtons == QtyFirst..QtyLast

\* phonenumbers.parse(phone_input, "IL"): NumberParseException for a text that
\* is no phone number, else the country code and the national number (the
\* leading zero of a national format dropped).
parse(phone_input) ==
    CASE phone_input = "0501234567" ->
            [ok |-> TRUE, country_code |-> "972", national_number |-> "501234567"]
      [] phone_input = "+972501234567" ->
            [ok |-> TRUE, country_code |-> "972", national_number |-> "501234567"]
      [] phone_input = "12" ->
            [ok |-> TRUE, country_code |-> "972", national_number |-> "12"]
      [] OTHER ->
            [ok |-> FALSE, country_code |-> "", national_number |-> ""]

\* A validity test that accepts every number that parses.
is_valid_number_any(parsed_number) == parsed_number.ok

\* phonenumbers.is_valid_number(parsed_number)
is_valid_number(parsed_number) ==
    /\ parsed_number.country_code = "972"
    /\ parsed_number.national_number = "501234567"

\* phonenumbers.format_number(parsed_number, PhoneNumberFormat.E164)
format_number(parsed_number) ==
    "+" \o parsed_number.country_code \o parsed_number.national_number

\* The next stage of the linear dialogue, reached only from the one before.
Advance(stage, from, to) == IF stage = from THEN to ELSE stage

\* The handler at the head of pending returns.
HandlerDone(ch) ==
    [ch EXCEPT !.pending = Tail(ch.pending),
               !.text = IF Len(ch.pending) = 1 THEN NoName ELSE ch.text]

\* ask_quantity: the purchaser presses "Buy Ticket" of an event.
ask_quantity(c, event_id) ==
    /\ Idle(c)
    /\ chat' = [chat EXCEPT ![c].user_data = NewSession(event_id),
                            ![c].shown = "how_many",
                            ![c].keyboard = TRUE,
                            ![c].stage = "event"]
    /\ UNCHANGED <<events, tickets, issuedBy, stripe, co, ps, cookies, dash>>

\* ask_name: the purchaser presses a quantity button.
ask_name(c, quantity) ==
    /\ Idle(c)
    /\ chat[c].keyboard
    /\ chat' = [chat EXCEPT ![c] =
            IF chat[c].user_data.has
            THEN [chat[c] EXCEPT !.user_data.quantity = quantity,
                                 !.shown = "full_name",
                                 !.handlers = Append(chat[c].handlers, "ask_phone"),
                                 !.stage = Advance(chat[c].stage, "event", "quantity")]
            ELSE [chat[c] EXCEPT !.shown = "expired"]]
    /\ UNCHANGED <<events, tickets, issuedBy, stripe, co, ps, cookies, dash>>

\* A text message arrives for a chat with next-step handlers: the bot takes
\* them all off the chat and runs each on the message.
Message(c, text) ==
    /\ Idle(c)
    /\ chat[c].handlers # <<>>
    /\ chat' = [chat EXCEPT ![c].pending = chat[c].handlers,
                            ![c].handlers = <<>>,
                            ![c].text = text]
    /\ UNCHANGED <<events, tickets, issuedBy, stripe, co, ps, cookies, dash>>

Running(c, handler) ==
    /\ chat[c].pending # <<>>
    /\ Head(chat[c].pending) = handler
    /\ chat[c].request = 0

\* ask_phone(message)
ask_phone(c) ==
    /\ Running(c, "ask_phone")
    /\ chat' = [chat EXCEPT ![c] = HandlerDone(
            IF chat[c].user_data.has
            THEN [chat[c] EXCEPT !.user_data.name = chat[c].text,
                                 !.shown = "phone_number",
                                 !.handlers = Append(chat[c].handlers, "validate_phone"),
                                 !.stage = Advance(chat[c].stage, "quantity", "name")]
            ELSE [chat[c] EXCEPT !.shown = "expired"])]
    /\ UNCHANGED <<events, tickets, issuedBy, stripe, co, ps, cookies, dash>>

\* ask_phone(message) run by a second worker thread of the bot while
\* finalize_order, taken for the same message before it, waits for the
\* response of create_checkout_session (telebot.TeleBot(TELEGRAM_TOKEN) runs
\* the handlers of a message as tasks of its worker pool).
ask_phone_meanwhile(c) ==
    /\ chat[c].request # 0
    /\ Len(chat[c].pending) >= 2
    /\ chat[c].pending[2] = "ask_phone"
    /\ chat' = [chat EXCEPT ![c] =
            [(IF chat[c].user_data.has
              THEN [chat[c] EXCEPT !.user_data.name = chat[c].text,
                                   !.shown = "phone_number",
                                   !.handlers = Append(chat[c].handlers, "validate_phone"),
                                   !.stage = Advance(chat[c].stage, "quantity", "name")]
              ELSE [chat[c] EXCEPT !.shown = "expired"])
             EXCEPT !.pending = <<Head(chat[c].pending)>>
                                    \o SubSeq(chat[c].pending, 3, Len(chat[c].pending))]]
    /\ UNCHANGED <<events, tickets, issuedBy, stripe, co, ps, cookies, dash>>

\* The phone number validate_phone hands to finalize_order, NoName for none.
ValidPhone(phone_input) ==
    LET parsed_number == parse(phone_input)
    IN IF parsed_number.ok /\ is_valid_number(parsed_number)
       THEN format_number(parsed_number) ELSE NoName

\* validate_phone(message) with a text that does not parse or is not a valid
\* number: the same handler is registered again.
validate_phone_retry(c) ==
    /\ Running(c, "validate_phone")
    /\ ValidPhone(chat[c].text) = NoName
    /\ chat' = [chat EXCEPT ![c] = HandlerDone(
            [chat[c] EXCEPT !.shown = IF parse(chat[c].text).ok
                                      THEN "invalid_number" ELSE "not_a_number",
                            !.handlers = Append(chat[c].handlers, "validate_phone")])]
    /\ UNCHANGED <<events, tickets, issuedBy, stripe, co, ps, cookies, dash>>

\* finalize_order(message, valid_phone): user_data has no entry for the chat
finalize_order_expired(c) ==
    /\ Running(c, "validate_phone")
    /\ ValidPhone(chat[c].text) # NoName
    /\ ~chat[c].user_data.has
    /\ chat' = [chat EXCEPT ![c] = HandlerDone([chat[c] EXCEPT !.shown = "expired"])]
    /\ UNCHANGED <<events, tickets, issuedBy, stripe, co, ps, cookies, dash>>

\* finalize_order: current_user['name'] raises KeyError, the handler ends there
finalize_order_key_error(c) ==
    /\ Running(c, "validate_phone")
    /\ ValidPhone(chat[c].text) # NoName
    /\ chat[c].user_data.has
    /\ chat[c].user_data.name = NoName
    /\ chat' = [chat EXCEPT ![c] = HandlerDone(chat[c])]
    /\ UNCHANGED <<events, tickets, issuedBy, stripe, co, ps, cookies, dash>>

\* payload = {...} of finalize_order; current_user.get('quantity', 1)
Payload(c, valid_phone) ==
    TicketRequest(chat[c].user_data.event_id, chat[c].user_data.name, c, valid_phone,
                  IF chat[c].user_data.quantity = 0 THEN 1
                  ELSE chat[c].user_data.quantity)

CanFinalize(c) ==
    /\ Running(c, "validate_phone")
    /\ ValidPhone(chat[c].text) # NoName
    /\ chat[c].user_data.has
    /\ chat[c].user_data.name # NoName

\* finalize_order up to requests.post(.../create_checkout_session, json=payload):
\* the request reaches the backend and the handler waits for the response.
finalize_order_post(c) ==
    /\ CanFinalize(c)
    /\ co' = Append(co, NewCheckout(c, Payload(c, ValidPhone(chat[c].text))))
    /\ chat' = [chat EXCEPT ![c].request = Len(co) + 1,
                            ![c].shown = "generating",
                            ![c].stage = Advance(chat[c].stage, "name", "phone")]
    /\ UNCHANGED <<events, tickets, issuedBy, stripe, ps, cookies, dash>>

\* The message the bot sends for a response of create_checkout_session.
Reply(status_code) ==
    IF status_code = 200 THEN "pay_now"
    ELSE IF status_code = 400 THEN "not_enough_tickets"
    ELSE "error_generating"

\* finalize_order from the response on: the message, user_data.pop(chat_id, None)
finalize_order_response(c) ==
    /\ chat[c].request # 0
    /\ co[chat[c].request].pc = "done"
    /\ chat' = [chat EXCEPT ![c] = HandlerDone(
            [chat[c] EXCEPT !.shown = Reply(co[chat[c].request].status_code),
                            !.user_data = NoSession,
                            !.request = 0,
                            !.stage = "none"])]
    /\ UNCHANGED <<events, tickets, issuedBy, stripe, co, ps, cookies, dash>>

\* finalize_order when requests.post raises (the backend is not reachable):
\* except Exception, then user_data.pop(chat_id, None)
finalize_order_connection_error(c) ==
    /\ CanFinalize(c)
    /\ chat' = [chat EXCEPT ![c] = HandlerDone(
            [chat[c] EXCEPT !.shown = "connection_error",
                            !.user_data = NoSession,
                            !.stage = "none"])]
    /\ UNCHANGED <<events, tickets, issuedBy, stripe, co, ps, cookies, dash>>

\* ------------------------------------------------------- admin dashboard
\* ADMIN_PASSWORD = os.getenv("ADMIN_PASSWORD"), configured
ADMIN_PASSWORD == "secret"

\* What a client submits to the login form, and the session_user cookie a
\* client sends with a dashboard request ("" for none).
Usernames == {"admin", "guest"}
Passwords == {"secret", "wrong"}
CookieValues == {"", "admin", "guest"}

\* No dashboard request has been made yet.
NoRequest == [route |-> "none", cookie |-> "", arg |-> 0, status_code |-> 200]

\* POST /login: on the right credentials the response sets the cookie
\* session_user = username; otherwise the login page is shown again.
login(username, password) ==
    /\ cookies' = IF username = "admin" /\ password = ADMIN_PASSWORD
                  THEN cookies \cup {username} ELSE cookies
    /\ UNCHANGED <<events, tickets, issuedBy, stripe, co, ps, chat, dash>>

\* get_current_username: user = request.cookies.get("session_user");
\* if not user: redirect (307) to /login
get_current_username(cookie) == IF cookie = "" THEN 307 ELSE 0

\* A request for a state-changing dashboard route arrives with its cookie.
DashboardRequest(route, cookie, arg) ==
    /\ dash.status_code # 0
    /\ dash' = [route |-> route, cookie |-> cookie, arg |-> arg, status_code |-> 0]
    /\ UNCHANGED <<events, tickets, issuedBy, stripe, co, ps, chat, cookies>>

\* The dependency get_current_username raises: the route is not run.
DashboardRedirect ==
    /\ dash.status_code = 0
    /\ get_current_username(dash.cookie) = 307
    /\ dash' = [dash EXCEPT !.status_code = 307]
    /\ UNCHANGED <<events, tickets, issuedBy, stripe, co, ps, chat, cookies>>

\* The dependency lets the request through to the route.
Admitted(route) ==
    /\ dash.status_code = 0
    /\ dash.route = route
    /\ get_current_username(dash.cookie) = 0

\* POST /dashboard/add
add_event_web ==
    /\ Admitted("add")
    /\ add_event(dash.arg)
    /\ dash' = [dash EXCEPT !.status_code = 303]
    /\ UNCHANGED cookies

\* POST /dashboard/archive/{event_id} and /dashboard/restore/{event_id}; the
\* UPDATE changes no row for an id that is not in the table.
set_active_route(route, flag) ==
    /\ Admitted(route)
    /\ events' = set_active(dash.arg, flag)
    /\ dash' = [dash EXCEPT !.status_code = 303]
    /\ UNCHANGED <<tickets, issuedBy, stripe, co, ps, chat, cookies>>

archive_event_route == set_active_route("archive", 0)

restore_event_route == set_active_route("restore", 1)

\* POST /dashboard/broadcast: 404 for a missing event, else the broadcast
\* task is queued.
broadcast_message ==
    /\ Admitted("broadcast")
    /\ dash' = [dash EXCEPT !.status_code =
                    IF EventMissing(get_event_by_id(dash.arg)) THEN 404 ELSE 303]
    /\ UNCHANGED <<events, tickets, issuedBy, stripe, co, ps, chat, cookies>>

\* ---------------------------------------------------------- specification
Init ==
    /\ events = <<>>
    /\ tickets = <<>>
    /\ issuedBy = <<>>
    /\ stripe = <<>>
    /\ co = <<>>
    /\ ps = <<>>
    /\ chat = [c \in Chats |-> NewChat]
    /\ cookies = {}
    /\ dash = NoRequest

\* The store, the checkout broker and the fulfilment handler, with the
\* requests of clients of the HTTP API; at most E events, R checkout requests
\* and C payment_success requests.
Backend(E, R, C) ==
    \/ Len(events) < E /\ \E n \in Capacities : add_event(n) /\ UNCHANGED <<cookies, dash>>
    \/ \E e \in 1..Len(events) : archive_event(e) /\ UNCHANGED <<cookies, dash>>
    \/ \E e \in 1..Len(events) : restore_event(e) /\ UNCHANGED <<cookies, dash>>
    \/ Len(co) < R /\ \E e \in 1..(Len(events) + 1), u \in ApiUsers, q \in ApiQuantities :
            ApiCheckout(e, u, q)
    \/ \E r \in 1..Len(co) : CheckoutCheck(r)
    \/ \E r \in 1..Len(co) : CheckoutStripeCreate(r)
    \/ \E r \in 1..Len(co) : CheckoutStripeError(r)
    \/ \E s \in 1..Len(stripe) : Pay(s)
    \/ Len(ps) < C /\ \E s \in 1..(Len(stripe) + 1) : PaymentSuccess(s)
    \/ \E k \in 1..Len(ps), d \in BOOLEAN : FulfilIssue(k, d)
    \/ \E k \in 1..Len(ps), d \in BOOLEAN : FulfilIssueDbError(k, d)

Next == Backend(MaxEvents, MaxRequests, MaxCalls)

Spec == Init /\ [][Next]_vars

NextFew == Backend(FewEvents, FewRequests, FewCalls)

SpecFew == Init /\ [][NextFew]_vars

\* The bot starts against a store that earlier runs have left: no event, or
\* one event with some of its tickets sold.
StoreLeft(total_tickets, sold) ==
    /\ events = <<[total_tickets |-> total_tickets, is_active |-> 1]>>
    /\ tickets = [t \in 1..sold |->
                    [event_id |-> 1, user_id |-> 3, user_name |-> "Dana",
                     phone_number |-> "+972501234567"]]
    /\ issuedBy = [t \in 1..sold |-> 0]

InitDialogue ==
    /\ \/ events = <<>> /\ tickets = <<>> /\ issuedBy = <<>>
       \/ \E n \in Capacities : \E sold \in 0..n : StoreLeft(n, sold)
    /\ stripe = <<>>
    /\ co = <<>>
    /\ ps = <<>>
    /\ chat = [c \in Chats |-> NewChat]
    /\ cookies = {}
    /\ dash = NoRequest

\* The purchase dialogue with the checkout broker behind it; at most E events,
\* R checkout requests and H next-step handlers of a chat. The "Buy Ticket"
\* buttons a purchaser can press are those of events the store holds (the bot
\* builds them from the event list, and no event is ever deleted).
Dialogue(E, R, H) ==
    \/ Len(events) < E /\ \E n \in Capacities : add_event(n) /\ UNCHANGED <<cookies, dash>>
    \/ \E c \in Chats, e \in 1..Len(events) : ask_quantity(c, e)
    \/ \E c \in Chats, q \in QtyButtons :
            (chat[c].user_data.has => Len(chat[c].handlers) < H) /\ ask_name(c, q)
    \/ \E c \in Chats, t \in Texts : Message(c, t)
    \/ \E c \in Chats : ask_phone(c)
    \/ \E c \in Chats : validate_phone_retry(c)
    \/ \E c \in Chats : finalize_order_expired(c)
    \/ \E c \in Chats : finalize_order_key_error(c)
    \/ Len(co) < R /\ \E c \in Chats : finalize_order_post(c)
    \/ \E c \in Chats : finalize_order_connection_error(c)
    \/ \E c \in Chats : finalize_order_response(c)
    \/ \E r \in 1..Len(co) : CheckoutCheck(r)
    \/ \E r \in 1..Len(co) : CheckoutStripeCreate(r)
    \/ \E r \in 1..Len(co) : CheckoutStripeError(r)

NextDialogue == Dialogue(MaxEvents, MaxRequests, MaxHandlers)

SpecDialogue == InitDialogue /\ [][NextDialogue]_vars

NextDialogueFew == Dialogue(FewEvents, FewRequests, MaxHandlers)

SpecDialogueFew == InitDialogue /\ [][NextDialogueFew]_vars

\* The purchase dialogue with the bot's worker threads: a handler taken for a
\* message runs while the one before it waits for the backend.
NextDialogueThreaded ==
    \/ NextDialogue
    \/ \E c \in Chats : ask_phone_meanwhile(c)

SpecDialogueThreaded == InitDialogue /\ [][NextDialogueThreaded]_vars

\* The whole purchase: the dialogue, the checkout broker behind it and the
\* fulfilment of the intents it creates.
Purchase(E, R, C, H) ==
    \/ Dialogue(E, R, H)
    \/ \E s \in 1..Len(stripe) : Pay(s)
    \/ Len(ps) < C /\ \E s \in 1..(Len(stripe) + 1) : PaymentSuccess(s)
    \/ \E k \in 1..Len(ps), d \in BOOLEAN : FulfilIssue(k, d)
    \/ \E k \in 1..Len(ps), d \in BOOLEAN : FulfilIssueDbError(k, d)

NextPurchaseFew == Purchase(FewEvents, FewRequests, FewCalls, MaxHandlers)

SpecPurchaseFew == InitDialogue /\ [][NextPurchaseFew]_vars

\* The admin dashboard: logins and requests for the state-changing routes,
\* with any cookie a client can send.
NextAdmin ==
    \/ \E u \in Usernames, p \in Passwords : login(u, p)
    \/ Len(events) < MaxEvents /\ \E k \in CookieValues, n \in Capacities :
            DashboardRequest("add", k, n)
    \/ \E r \in {"archive", "restore", "broadcast"}, k \in CookieValues,
           e \in 1..MaxEvents : DashboardRequest(r, k, e)
    \/ DashboardRedirect
    \/ add_event_web
    \/ archive_event_route
    \/ restore_event_route
    \/ broadcast_message

SpecAdmin == Init /\ [][NextAdmin]_vars

\* ----------------------------------------------------------------- claims
Remaining(e) == events[e].total_tickets - get_tickets_sold(e)

\* C1: no overselling: in every reachable state the tickets stored for an
\* event are at most its total_tickets.
C1_NoOverselling ==
    \A e \in 1..Len(events) : get_tickets_sold(e) <= events[e].total_tickets

\* C2: capacity is re-validated at issuance: a payment_success call for a paid
\* intent whose quantity was more than the event had left when it ran issues no
\* ticket and does not report success.
C2_RevalidatedAtIssuance ==
    \A k \in 1..Len(ps) :
        ps[k].exceeded => Issued(k) = {} /\ ps[k].result \notin {"", "success"}

\* C3: an intent is consumed once: over all payment_success calls with one
\* session id, the tickets issued never exceed the intent's quantity.
C3_IntentConsumedOnce ==
    \A s \in 1..Len(stripe) :
        Cardinality(IssuedFor(s)) <= int(stripe[s].metadata.quantity)

\* r has passed the capacity check with the last unit of its event: it read
\* one ticket left, asks for one, and goes on to create the payment intent.
PassedForLastUnit(r) ==
    /\ co[r].pc = "stripe"
    /\ co[r].ticket.quantity = 1
    /\ co[r].sold_count + 1 = co[r].event.total_tickets

\* C4: reservation is serialized per event: of two create_checkout_session
\* requests for quantity 1 that run at the same time while one ticket of the
\* event remains, at most one passes the capacity check.
C4_ReservationSerialized ==
    \A r1, r2 \in 1..Len(co) :
        (/\ r1 # r2
         /\ co[r1].ticket.event_id = co[r2].ticket.event_id
         /\ PassedForLastUnit(r1))
        => ~PassedForLastUnit(r2)

\* C5: issuance is atomic: a payment_success call for a paid intent of quantity
\* N that has returned has added 0 or N tickets.
C5_IssuanceAtomic ==
    \A k \in 1..Len(ps) :
        (ps[k].pc = "done" /\ ps[k].payment_status = "paid")
        => Cardinality(Issued(k)) \in {0, ps[k].quantity}

\* C6: payment_success for an intent that is not paid has returned at once,
\* has inserted no ticket and has sent no ticket artifact.
C6_NotPaidIssuesNothing ==
    \A k \in 1..Len(ps) :
        ps[k].payment_status # "paid"
        => ps[k].pc = "done" /\ Issued(k) = {} /\ ps[k].i = 0
           /\ ps[k].result \in {"not_paid", "error"}

C6_Witness ==
    \E k \in 1..Len(ps) :
        /\ ps[k].payment_status = "unpaid"
        /\ ps[k].result = "not_paid"
        /\ int(stripe[ps[k].session_id].metadata.quantity) > 0

\* C7: create_checkout_session does not go past the event lookup with an event
\* that is missing or archived: a request that goes on to create the payment
\* intent has found an active event.
C7_ArchivedIsNotFound ==
    \A r \in 1..Len(co) :
        co[r].pc = "stripe" => ~EventMissing(co[r].event) /\ co[r].event.is_active = 1

\* A payment_success call that has returned the success page for a paid
\* intent of quantity q, with q units left when it ran and no database error,
\* has inserted exactly q ticket rows (q distinct ids), each with the intent's
\* event, purchaser, name and phone, and has sent q artifacts.
SuccessIssuedAll ==
    \A k \in 1..Len(ps) :
        (/\ ps[k].pc = "done"
         /\ ps[k].result = "success"
         /\ ~ps[k].db_error
         /\ ~ps[k].exceeded)
        => LET data == stripe[ps[k].session_id].metadata
           IN /\ Cardinality(Issued(k)) = int(data.quantity)
              /\ ps[k].i = int(data.quantity)
              /\ \A t \in Issued(k) :
                    /\ tickets[t].event_id = int(data.event_id)
                    /\ tickets[t].user_id = int(data.user_id)
                    /\ tickets[t].user_name = data.user_name
                    /\ tickets[t].phone_number = data.phone_number

\* Each row a call inserts takes exactly one unit of the remaining count of
\* the intent's event, and none of any other event.
InsertTakesOneUnit ==
    \A k \in 1..Len(ps) :
        (ps[k].pc = "loop" /\ ps'[k] # ps[k] /\ Len(tickets') > Len(tickets))
        => \A e \in 1..Len(events) :
              Remaining(e)' = Remaining(e)
                    - (IF e = int(stripe[ps[k].session_id].metadata.event_id)
                       THEN 1 ELSE 0)

\* C8: a successful fulfilment of a paid intent of quantity q, with at least q
\* units remaining and no failure, issues exactly q tickets with distinct ids,
\* all for the intent's event and purchaser, and the event's remaining count
\* drops by one with each of the q rows.
C8_SuccessIssuesExactly ==
    []SuccessIssuedAll /\ [][InsertTakesOneUnit]_vars

C8_Witness ==
    \E k \in 1..Len(ps) :
        /\ ps[k].pc = "done"
        /\ ps[k].result = "success"
        /\ ~ps[k].db_error
        /\ ~ps[k].exceeded
        /\ ps[k].quantity = 2
        /\ Cardinality(Issued(k)) = 2
        /\ Remaining(int(stripe[ps[k].session_id].metadata.event_id)) = 0

\* The capacity check of request r in this step: it ends with HTTP 400 exactly
\* when the event exists and sold count plus quantity exceed its capacity, and
\* then no payment intent is created.
OversoldIs400(r) ==
    LET e == co[r].ticket.event_id
        over == /\ e \in 1..Len(events)
                /\ get_tickets_sold(e) + co[r].ticket.quantity > events[e].total_tickets
    IN (co[r].pc = "check" /\ co'[r].pc # "check")
       => /\ over <=> co'[r].status_code = 400
          /\ over => co'[r].pc = "done" /\ co'[r].session_id = 0 /\ stripe' = stripe

\* The bot's message for a response in this step: the not-enough-tickets
\* message exactly for HTTP 400, and that message appears in no other step.
NotEnoughOnlyFor400(c) ==
    IF chat[c].request # 0 /\ chat'[c].request = 0
    THEN chat'[c].shown = "not_enough_tickets"
            <=> co[chat[c].request].status_code = 400
    ELSE chat'[c].shown = "not_enough_tickets"
            => chat[c].shown = "not_enough_tickets"

\* C9: a request whose quantity exceeds what is left fails with HTTP 400 and
\* creates no payment intent, the bot then shows the not-enough-tickets
\* message, and it shows that message for no other outcome.
C9_OversoldSurfaced ==
    [][/\ \A r \in 1..Len(co) : OversoldIs400(r)
       /\ \A c \in Chats : NotEnoughOnlyFor400(c)]_vars

C9_Witness ==
    \E c \in Chats :
        /\ chat[c].shown = "not_enough_tickets"
        /\ chat[c].request = 0
        /\ ~chat[c].user_data.has
        /\ stripe = <<>>
        /\ \E r \in 1..Len(co) : co[r].origin = c /\ co[r].status_code = 400
        /\ \E e \in 1..Len(events) : get_tickets_sold(e) > 0

\* C10: the dialogue is linear: a checkout request is sent for a purchaser only
\* when the current session has gone through event choice, quantity choice,
\* name and valid phone, in that order.
C10_DialogueLinear ==
    \A c \in Chats : chat[c].request # 0 => chat[c].stage = "phone"

\* C11: the full tuple is handed over: a checkout request that finalize_order
\* has sent carries the event id, the quantity and the name entered in the
\* purchaser's current session, the normalized phone and the purchaser's chat
\* id; no field is missing or defaulted.
C11_FullTuple ==
    \A c \in Chats :
        LET r == chat[c].request
            u == chat[c].user_data
        IN (r # 0 /\ co[r].pc = "check")
           => /\ u.has
              /\ u.quantity \in QtyFirst..QtyLast
              /\ u.name # NoName
              /\ co[r].ticket = TicketRequest(u.event_id, u.name, c,
                                              "+972501234567", u.quantity)

\* finalize_order, entered with a valid phone while the chat has a session,
\* finishes in this step (with or without a request to the backend).
FinalizeFinishes(c) ==
    /\ \/ chat[c].request # 0
       \/ /\ Running(c, "validate_phone")
          /\ ValidPhone(chat[c].text) # NoName
          /\ chat[c].user_data.has
    /\ chat'[c].request = 0
    /\ chat'[c].pending # chat[c].pending

\* C12: the session is one-shot: when finalize_order, run with a valid phone
\* for a purchaser who has a session, finishes, that purchaser has no session,
\* whatever the outcome.
C12_SessionOneShot ==
    [][\A c \in Chats : FinalizeFinishes(c) => ~chat'[c].user_data.has]_vars

\* validate_phone handles, in this step, a text that does not parse ("Dana")
\* or that parses to an invalid number ("12"): no request is sent, the session
\* and the stage of the dialogue stay as they are, and validate_phone is
\* registered for the purchaser's next message.
RejectsInvalid(c) ==
    (/\ Running(c, "validate_phone")
     /\ chat[c].text \in {"Dana", "12"}
     /\ chat'[c].pending # chat[c].pending)
    => /\ co' = co
       /\ chat'[c].request = 0
       /\ chat'[c].user_data = chat[c].user_data
       /\ chat'[c].stage = chat[c].stage
       /\ chat'[c].handlers = Append(chat[c].handlers, "validate_phone")
       /\ chat'[c].shown \in {"invalid_number", "not_a_number"}

\* C13: invalid phone input is rejected without advancing: no checkout
\* request is sent, the session is unchanged and the next message is again
\* handled by phone validation, every time.
C13_InvalidPhoneLoops ==
    [][\A c \in Chats : RejectsInvalid(c)]_vars

C13_Witness ==
    \E c \in Chats :
        /\ chat[c].shown = "invalid_number"
        /\ chat[c].pending = <<>>
        /\ chat[c].handlers = <<"validate_phone">>
        /\ chat[c].user_data.has
        /\ chat[c].user_data.name = "Dana"
        /\ chat[c].stage = "name"
        /\ co = <<>>

\* A handler of a later step (quantity, name, phone, finalize) runs for chat c
\* in this step: a next-step handler taken for a message, or a button press
\* other than the event choice (which answers "how many").
LaterHandlerRuns(c) ==
    \/ chat[c].pending # <<>> /\ chat'[c].pending # chat[c].pending
    \/ /\ Idle(c)
       /\ chat'[c] # chat[c]
       /\ chat'[c].pending = <<>>
       /\ chat'[c].shown # "how_many"

\* The dialogue of chat c is abandoned by this step: no session, no further
\* step awaited beyond those already registered, no checkout request.
Abandoned(c) ==
    /\ chat'[c].user_data = NoSession
    /\ chat'[c].handlers = chat[c].handlers
    /\ chat'[c].request = 0
    /\ chat'[c].shown = "expired"
    /\ co' = co

\* C14: when the handler of a later step runs and the purchaser's session is
\* missing, the dialogue is abandoned: the handler creates no session, awaits
\* no further step and sends no checkout request.
C14_SessionExpired ==
    [][\A c \in Chats :
          (~chat[c].user_data.has /\ LaterHandlerRuns(c)) => Abandoned(c)]_vars

\* Inventory in this step: the capacity of every event stays; a step of the
\* dialogue or of create_checkout_session leaves the tickets and the events as
\* they are; and the tickets change only by one row appended by a
\* payment_success call for a paid intent.
InventoryFrame ==
    /\ \A e \in 1..Len(events) :
          /\ e \in 1..Len(events')
          /\ events'[e].total_tickets = events[e].total_tickets
    /\ (chat' # chat \/ co' # co \/ stripe' # stripe)
          => tickets' = tickets /\ events' = events
    /\ tickets' # tickets
          => \E k \in 1..Len(ps) :
                /\ ps[k].pc = "loop"
                /\ ps[k].payment_status = "paid"
                /\ ps'[k] # ps[k]
                /\ Len(tickets') = Len(tickets) + 1
                /\ SubSeq(tickets', 1, Len(tickets)) = tickets

\* C15: only issuance changes inventory: every step of the purchase dialogue
\* and every create_checkout_session call leaves the tickets table and every
\* event's capacity unchanged; only payment_success for a paid intent adds to
\* an event's issued count.
C15_OnlyIssuanceChangesInventory == [][InventoryFrame]_vars

C15_Witness ==
    /\ \E c \in Chats : chat[c].shown = "pay_now" /\ ~chat[c].user_data.has
    /\ \E r \in 1..Len(co) : co[r].pc = "done" /\ co[r].status_code = 200
    /\ \E k \in 1..Len(ps) :
          ps[k].payment_status = "paid" /\ ps[k].pc = "done" /\ Issued(k) # {}
    /\ Len(tickets) > Cardinality({t \in 1..Len(tickets) : issuedBy[t] = 0})

\* The tickets in this step: every row stays where it is, and no event's
\* issued count goes down.
TicketsStay ==
    /\ Len(tickets') >= Len(tickets)
    /\ SubSeq(tickets', 1, Len(tickets)) = tickets
    /\ \A e \in 1..Len(events) : get_tickets_sold(e)' >= get_tickets_sold(e)

\* C16: a ticket, once issued, is never un-issued: no operation removes a
\* ticket, a failed notification during fulfilment included, so each event's
\* issued count never decreases.
C16_NeverUnissued == [][TicketsStay]_vars

C16_Witness ==
    \E k \in 1..Len(ps) :
        /\ ps[k].pc = "done"
        /\ ps[k].payment_status = "paid"
        /\ ps[k].result = "error"
        /\ ps[k].i = 1
        /\ Cardinality(Issued(k)) = 2

\* C17: the remaining count of an event, total_tickets minus the tickets sold
\* as show_dashboard computes it, is never negative.
C17_RemainingNeverNegative ==
    \A e \in 1..Len(events) : Remaining(e) >= 0

\* The one reservation and the one fulfilment of the run: a single
\* create_checkout_session request has succeeded, and the single
\* payment_success call, for its paid intent, has returned; nothing else has
\* read or written the tickets in between.
ReservedThenIssued(k) ==
    /\ Len(co) = 1
    /\ Len(ps) = 1
    /\ co[1].status_code = 200
    /\ ps[k].session_id = co[1].session_id
    /\ ps[k].payment_status = "paid"
    /\ ps[k].pc = "done"

\* C18: a successful create_checkout_session for quantity q followed by
\* payment_success for the paid intent, with no other operation on the ledger
\* in between, does not fail and issues all q tickets.
C18_ReserveThenIssue ==
    \A k \in 1..Len(ps) :
        ReservedThenIssued(k)
        => ps[k].result = "success" /\ Cardinality(Issued(k)) = ps[k].quantity

\* C19: the quantity the quantity step stores in a session, and the quantity
\* of every checkout request the dialogue sends, is between 1 and 5.
C19_QuantityOneToFive ==
    /\ \A c \in Chats :
          (chat[c].user_data.has /\ chat[c].user_data.quantity # 0)
          => chat[c].user_data.quantity \in 1..5
    /\ \A r \in 1..Len(co) :
          (co[r].origin \in Chats /\ co[r].pc # "done")
          => co[r].ticket.quantity \in 1..5

C19_Witness ==
    \E c \in Chats :
        /\ chat[c].request # 0
        /\ co[chat[c].request].pc = "check"
        /\ co[chat[c].request].ticket.quantity = 5
        /\ chat[c].user_data.quantity = 5

\* C20: a state-changing dashboard route (add event, archive, restore,
\* broadcast) runs only for a request whose session cookie the login route
\* has set after the correct credentials; any other request is redirected
\* and changes nothing.
C20_AdminRoutesNeedLogin ==
    /\ dash.status_code \in {303, 404} => dash.cookie \in cookies
    /\ cookies = {} => events = <<>>

\* A payment_success call inserts a ticket row in this step only for an event
\* that is active at that moment.
IssuedForActiveEvent ==
    \A k \in 1..Len(ps) :
        (ps[k].pc = "loop" /\ ps'[k] # ps[k] /\ Len(tickets') > Len(tickets))
        => LET e == tickets'[Len(tickets')].event_id
           IN e \in 1..Len(events) /\ events[e].is_active = 1

\* C21: no ticket is issued for an event that is archived at the time of
\* issuance: payment_success for a paid intent whose event was archived after
\* the checkout issues no ticket.
C21_NoIssuanceForArchived == [][IssuedForActiveEvent]_vars

====
